---- MODULE Spec2Model ----
(***************************************************************************)
(* PlateHub: the Express server bootstrap (server/index.ts as given in the *)
(* health-check document) and the one-shot database migration scripts.     *)
(*                                                                         *)
(* Spec     : the server: startup IIFE, listener, request pipeline.         *)
(* SpecMig  : the migration scripts run against a small relational schema.  *)
(***************************************************************************)
EXTENDS Integers, Sequences, FiniteSets, TLC

VARIABLES
  \* ---- server process ----
  pc,          \* position of the startup IIFE
  stack,       \* the Express layer stack, in registration order
  created,     \* HTTP server handles constructed so far
  httpServer,  \* the handle the IIFE listens on ("none" before it is chosen)
  listenCalls, \* handle -> number of listen() invocations
  portBusy,    \* a stale process holds port 5000
  bindState,   \* "idle" | "pending" | "listening" | "error"
  errListener, \* httpServer.on('error') registered
  keepAlive,   \* the setInterval timer is installed
  alive,       \* the process has not terminated
  logged,      \* kinds of console.error / console.log lines written
  \* ---- request in flight ----
  phase,       \* "idle" | "processing" | "done"
  req,         \* the request
  pos,         \* index in stack of the layer that handles it next
  err,         \* the error travelling down the pipeline (NoErr if none)
  res,         \* the response written (NoRes if none)
  invoked,     \* the layers whose handler ran for this request, in order
  classified,  \* isHealthCheck as computed by the root handler
  nextCalls,   \* number of next() calls made by the root handler
  hadError,    \* some earlier request ended in the error handler
  \* ---- migration run ----
  script,      \* which migration script this process runs
  dbEnv,       \* "ok" | "noUrl" (DATABASE_URL unset) | "outage" (statements may fail)
  mpc,         \* position in the script's main()
  tables,      \* tables of the schema
  cols,        \* columns, as <<table, column>>
  constraints, \* column constraints, as <<table, column, kind>>
  users,       \* usernames of the rows of users
  email,       \* username -> users.email ("NULL" for SQL NULL)
  stmtFailed,  \* a statement of the current run raised an error
  exitCode,    \* exit code of the current run (-1 while it runs)
  runs,        \* completed runs of the script
  before,      \* the schema and data before the first run
  after1       \* the schema and data when the first run exited

srvVars == <<pc, stack, created, httpServer, listenCalls, portBusy,
             bindState, errListener, keepAlive, alive, logged>>
reqVars == <<phase, req, pos, err, res, invoked, classified, nextCalls, hadError>>
migVars == <<script, dbEnv, mpc, tables, cols, constraints, users, email,
             stmtFailed, exitCode, runs, before, after1>>
vars == <<srvVars, reqVars, migVars>>

Range(s) == { s[i] : i \in 1..Len(s) }

(***************************************************************************)
(* Strings the classifier searches are sequences of characters, so that    *)
(* String.prototype.includes is a real substring search.                   *)
(***************************************************************************)
GoogleHC    == <<"G","o","o","g","l","e","H","C">>
HealthCheck == <<"H","e","a","l","t","h","C","h","e","c","k">>
Curl        == <<"c","u","r","l">>
Replit      == <<"R","e","p","l","i","t">>

Includes(s, sub) ==
  \E i \in 0..(Len(s) - Len(sub)) : SubSeq(s, i + 1, i + Len(sub)) = sub

\* user-agent values of the requests; <<>> is a missing header (|| '')
UserAgents ==
  { <<>>,
    <<"M","o","z","i","l","l","a","/","5",".","0">>,
    <<"c","u","r","l","/","8">>,
    <<"G","o","o","g","l","e","H","C","/","1">>,
    <<"k","u","b","e","-","H","e","a","l","t","h","C","h","e","c","k">>,
    <<"R","e","p","l","i","t","-","h","c">>,
    <<"C","U","R","L"," ","g","o","o","g","l","e","h","c"," ",
      "h","e","a","l","t","h","c","h","e","c","k"," ","r","e","p","l","i","t">> }

Methods == {"GET", "HEAD", "POST", "OPTIONS"}
Paths == {"/", "/health", "/api/health", "/__repl", "/api/status",
          "/api/videos", "/static/app.css"}
\* "" is an absent header
HeaderValues == {"", "true", "TRUE"}
ReplitHeaderValues == {"", "true"}
\* req.query.health as parsed: <<>> absent, one value, or a repeated parameter
QueryValues == { <<>>, <<"check">>, <<"check", "check">> }

Requests ==
  [method : Methods, path : Paths, ua : UserAgents, xhc : HeaderValues,
   xrhc : ReplitHeaderValues, health : QueryValues]

NoReq == [method |-> "GET", path |-> "/", ua |-> <<>>, xhc |-> "",
          xrhc |-> "", health |-> <<>>]

\* 0 stands for an absent (falsy) status / statusCode, "" for an absent message
Errors == [status : {0, 404}, statusCode : {0, 503}, message : {"", "boom"}]
NoErr == [status |-> -1, statusCode |-> -1, message |-> "none"]

NoRes == [status |-> 0, body |-> "", type |-> "none", by |-> "none"]

(***************************************************************************)
(* The classifier                                                          *)
(***************************************************************************)
IsHealthCheck_CaseInsensitive(r) ==
  LET lower(c) == CASE c = "C" -> "c" [] c = "U" -> "u" [] c = "R" -> "r"
                    [] c = "L" -> "l" [] OTHER -> c
      lc == [i \in 1..Len(r.ua) |-> lower(r.ua[i])]
  IN  \/ Includes(r.ua, GoogleHC)
      \/ Includes(r.ua, HealthCheck)
      \/ Includes(lc, Curl)
      \/ Includes(r.ua, Replit)
      \/ r.xhc = "true"
      \/ r.xrhc = "true"
      \/ r.health = <<"check">>

IsHealthCheck_NoReplitHeader(r) ==
  \/ Includes(r.ua, GoogleHC)
  \/ Includes(r.ua, HealthCheck)
  \/ Includes(r.ua, Curl)
  \/ Includes(r.ua, Replit)
  \/ r.xhc = "true"
  \/ r.health = <<"check">>

IsHealthCheck(r) ==
  \/ Includes(r.ua, GoogleHC)
  \/ Includes(r.ua, HealthCheck)
  \/ Includes(r.ua, Curl)
  \/ Includes(r.ua, Replit)
  \/ r.xhc = "true"
  \/ r.xrhc = "true"
  \/ r.health = <<"check">>

(***************************************************************************)
(* Express plumbing                                                        *)
(***************************************************************************)
\* res.status(s).send(body): a HEAD request gets the headers only
Send(r, s, body, layer) ==
  [status |-> s, body |-> IF r.method = "HEAD" THEN "" ELSE body,
   type |-> "text", by |-> layer]

\* the layers registered while the module loads, before the IIFE runs
InitStack ==
  <<"root", "health", "apiHealth", "repl",
    "json", "urlencoded", "static", "logger">>

RoutePath(layer) ==
  CASE layer = "root"      -> "/"
    [] layer = "health"    -> "/health"
    [] layer = "apiHealth" -> "/api/health"
    [] layer = "repl"      -> "/__repl"
    [] layer = "apiStatus" -> "/api/status"
    [] OTHER               -> "*"

GetRoutes == {"root", "health", "apiHealth", "repl", "apiStatus"}

\* does the layer take the request (e is the error in flight)?
Matches(layer, r, e) ==
  IF layer = "errorHandler" THEN e # NoErr
  ELSE /\ e = NoErr
       /\ CASE layer \in GetRoutes  -> r.path = RoutePath(layer)
                                       /\ r.method \in {"GET", "HEAD"}
            [] layer = "static"     -> r.path = "/static/app.css"
            [] layer = "appRoutes"  -> r.path = "/api/videos"
            [] OTHER                -> TRUE

\* the router's next(): the first layer at index >= i that takes the request
RECURSIVE NextMatch(_, _, _, _)
NextMatch(st, i, r, e) ==
  IF i > Len(st) THEN Len(st) + 1
  ELSE IF Matches(st[i], r, e) THEN i
  ELSE NextMatch(st, i + 1, r, e)

At(layer) ==
  /\ alive
  /\ phase = "processing"
  /\ pos <= Len(stack)
  /\ stack[pos] = layer

\* the handler at pos calls next()
PassOn ==
  /\ pos' = NextMatch(stack, pos + 1, req, err)
  /\ invoked' = Append(invoked, stack[pos])
  /\ UNCHANGED <<phase, req, err, res>>

\* the handler at pos writes the response r
Respond(r) ==
  /\ res' = r
  /\ phase' = "done"
  /\ invoked' = Append(invoked, stack[pos])
  /\ UNCHANGED <<pos, req, err>>

\* the handler at pos throws e (or calls next(e))
Throw(e) ==
  /\ err' = e
  /\ pos' = NextMatch(stack, pos + 1, req, e)
  /\ invoked' = Append(invoked, stack[pos])
  /\ UNCHANGED <<phase, req, res>>

(***************************************************************************)
(* Request handlers, in registration order                                 *)
(***************************************************************************)
Receive ==
  /\ alive
  /\ bindState = "listening"
  /\ phase = "idle"
  /\ \E r \in Requests :
       /\ req' = r
       /\ pos' = NextMatch(stack, 1, r, NoErr)
  /\ phase' = "processing"
  /\ err' = NoErr
  /\ res' = NoRes
  /\ invoked' = <<>>
  /\ classified' = "none"
  /\ nextCalls' = 0
  /\ UNCHANGED <<hadError, srvVars, migVars>>

\* the health branch without its return: responds and falls into next()
RootHandler_NoReturn ==
  /\ At("root")
  /\ classified' = IF IsHealthCheck(req) THEN "true" ELSE "false"
  /\ res' = IF IsHealthCheck(req) THEN Send(req, 200, "OK", "root") ELSE res
  /\ pos' = NextMatch(stack, pos + 1, req, err)
  /\ invoked' = Append(invoked, stack[pos])
  /\ nextCalls' = nextCalls + 1
  /\ UNCHANGED <<phase, req, err, hadError, srvVars, migVars>>

RootHandler ==
  /\ At("root")
  /\ IF IsHealthCheck(req)
       THEN /\ classified' = "true"
            /\ Respond(Send(req, 200, "OK", "root"))
            /\ UNCHANGED nextCalls
       ELSE /\ classified' = "false"
            /\ PassOn
            /\ nextCalls' = nextCalls + 1
  /\ UNCHANGED <<hadError, srvVars, migVars>>

\* a fixed endpoint that answers only what the classifier accepts
FixedHealth_Classified(layer) ==
  /\ At(layer)
  /\ IF IsHealthCheck(req)
       THEN Respond(Send(req, 200, "OK", layer))
       ELSE PassOn
  /\ UNCHANGED <<classified, nextCalls, hadError, srvVars, migVars>>

FixedHealth(layer) ==
  /\ At(layer)
  /\ Respond(Send(req, 200, "OK", layer))
  /\ UNCHANGED <<classified, nextCalls, hadError, srvVars, migVars>>

Health == FixedHealth("health")

ApiHealth == FixedHealth("apiHealth")

Repl == FixedHealth("repl")

JsonMiddleware ==
  /\ At("json")
  /\ PassOn
  /\ UNCHANGED <<classified, nextCalls, hadError, srvVars, migVars>>

UrlencodedMiddleware ==
  /\ At("urlencoded")
  /\ PassOn
  /\ UNCHANGED <<classified, nextCalls, hadError, srvVars, migVars>>

\* express.static under /static: serves an existing file to GET/HEAD, else next()
StaticMiddleware ==
  /\ At("static")
  /\ \E found \in BOOLEAN :
       IF found /\ req.method \in {"GET", "HEAD"}
       THEN Respond([status |-> 200, body |-> "", type |-> "file", by |-> "static"])
       ELSE PassOn
  /\ UNCHANGED <<classified, nextCalls, hadError, srvVars, migVars>>

RequestLogger ==
  /\ At("logger")
  /\ PassOn
  /\ UNCHANGED <<classified, nextCalls, hadError, srvVars, migVars>>

Cors ==
  /\ At("cors")
  /\ IF req.method = "OPTIONS"
       THEN Respond([status |-> 200, body |-> "OK", type |-> "text", by |-> "cors"])
       ELSE PassOn
  /\ UNCHANGED <<classified, nextCalls, hadError, srvVars, migVars>>

ApiStatus ==
  /\ At("apiStatus")
  /\ Respond([status |-> 200, body |-> IF req.method = "HEAD" THEN "" ELSE "ok",
              type |-> "json", by |-> "apiStatus"])
  /\ UNCHANGED <<classified, nextCalls, hadError, srvVars, migVars>>

\* an application route: answers, or throws some error
AppRoutes ==
  /\ At("appRoutes")
  /\ \/ Respond([status |-> 200, body |-> "[]", type |-> "json", by |-> "appRoutes"])
     \/ \E e \in Errors : Throw(e)
  /\ UNCHANGED <<classified, nextCalls, hadError, srvVars, migVars>>

\* the Vite dev middleware / production static server
Assets ==
  /\ At("assets")
  /\ \E serve \in BOOLEAN :
       IF serve
       THEN Respond([status |-> 200, body |-> "index.html", type |-> "html",
                     by |-> "assets"])
       ELSE PassOn
  /\ UNCHANGED <<classified, nextCalls, hadError, srvVars, migVars>>

\* err.status || err.statusCode || 500
ErrStatus_NoStatusCode(e) == IF e.status # 0 THEN e.status ELSE 500

ErrStatus(e) ==
  IF e.status # 0 THEN e.status
  ELSE IF e.statusCode # 0 THEN e.statusCode
  ELSE 500

\* err.message || "Internal Server Error"
ErrMessage(e) == IF e.message # "" THEN e.message ELSE "Internal Server Error"

ErrorHandler ==
  /\ At("errorHandler")
  /\ Respond([status |-> ErrStatus(err), body |-> ErrMessage(err),
              type |-> "json", by |-> "errorHandler"])
  /\ hadError' = TRUE
  /\ UNCHANGED <<classified, nextCalls, srvVars, migVars>>

\* no layer is left: Express's final handler
FinalHandler ==
  /\ alive
  /\ phase = "processing"
  /\ pos = Len(stack) + 1
  /\ res' = [status |-> IF err = NoErr THEN 404 ELSE ErrStatus(err),
             body |-> "", type |-> "html", by |-> "finalhandler"]
  /\ phase' = "done"
  /\ UNCHANGED <<req, pos, err, invoked, classified, nextCalls, hadError,
                 srvVars, migVars>>

(***************************************************************************)
(* Process-wide handlers and the keep-alive timer                          *)
(***************************************************************************)
\* an 'uncaughtException' listener that exits after logging
OnUncaughtException_Exit(running) == FALSE

\* process.on('uncaughtException'): logs, does not exit
OnUncaughtException(running) == running

\* the setInterval callback runs; it may throw
KeepAliveTick ==
  /\ alive
  /\ keepAlive
  /\ \E throws \in BOOLEAN :
       IF throws
       THEN /\ logged' = logged \cup {"uncaught"}
            /\ alive' = OnUncaughtException(alive)
       ELSE /\ logged' = logged \cup {"ping"}
            /\ UNCHANGED alive
  /\ UNCHANGED <<pc, stack, created, httpServer, listenCalls, portBusy,
                 bindState, errListener, keepAlive, reqVars, migVars>>

(***************************************************************************)
(* The startup IIFE                                                        *)
(***************************************************************************)
Handles == {"server", "routesServer"}

\* the catch of the IIFE: log, do not exit
InitCatch ==
  /\ logged' = logged \cup {"initError"}
  /\ pc' = "failed"

\* await registerRoutes(app); httpServer = routesServer || server
RegisterRoutes ==
  /\ alive
  /\ pc = "registerRoutes"
  /\ \E outcome \in {"server", "none", "reject"} :
       IF outcome = "reject"
       THEN /\ InitCatch
            /\ UNCHANGED <<stack, created, httpServer>>
       ELSE /\ stack' = stack \o <<"cors", "apiStatus", "appRoutes">>
            /\ created' = created \cup {"routesServer"}
            /\ httpServer' = IF outcome = "server" THEN "routesServer" ELSE "server"
            /\ pc' = "assets"
            /\ UNCHANGED logged
  /\ UNCHANGED <<listenCalls, portBusy, bindState, errListener, keepAlive,
                 alive, reqVars, migVars>>

\* setupVite(app, httpServer) in development, serveStatic(app) otherwise
SetupAssets ==
  /\ alive
  /\ pc = "assets"
  /\ \E mode \in {"development", "production"}, ok \in BOOLEAN :
       IF ok
       THEN /\ stack' = Append(stack, "assets")
            /\ pc' = "errorHandler"
            /\ UNCHANGED logged
       ELSE /\ InitCatch
            /\ UNCHANGED stack
  /\ UNCHANGED <<created, httpServer, listenCalls, portBusy, bindState,
                 errListener, keepAlive, alive, reqVars, migVars>>

RegisterErrorHandler ==
  /\ alive
  /\ pc = "errorHandler"
  /\ stack' = Append(stack, "errorHandler")
  /\ pc' = "freePort"
  /\ UNCHANGED <<created, httpServer, listenCalls, portBusy, bindState,
                 errListener, keepAlive, alive, logged, reqVars, migVars>>

\* execSync(lsof | kill -9): its failure is swallowed by the inner catch
FreePort ==
  /\ alive
  /\ pc = "freePort"
  /\ \E killed \in BOOLEAN : portBusy' = (portBusy /\ ~killed)
  /\ pc' = "listen"
  /\ UNCHANGED <<stack, created, httpServer, listenCalls, bindState,
                 errListener, keepAlive, alive, logged, reqVars, migVars>>

Listen ==
  /\ alive
  /\ pc = "listen"
  /\ listenCalls' = [listenCalls EXCEPT ![httpServer] = @ + 1]
  /\ bindState' = "pending"
  /\ pc' = "onError"
  /\ UNCHANGED <<stack, created, httpServer, portBusy, errListener,
                 keepAlive, alive, logged, reqVars, migVars>>

RegisterServerErrorHandler ==
  /\ alive
  /\ pc = "onError"
  /\ errListener' = TRUE
  /\ pc' = "keepAlive"
  /\ UNCHANGED <<stack, created, httpServer, listenCalls, portBusy,
                 bindState, keepAlive, alive, logged, reqVars, migVars>>

StartKeepAlive ==
  /\ alive
  /\ pc = "keepAlive"
  /\ keepAlive' = TRUE
  /\ pc' = "completed"
  /\ UNCHANGED <<stack, created, httpServer, listenCalls, portBusy,
                 bindState, errListener, alive, logged, reqVars, migVars>>

\* the bind finishes after the synchronous rest of the IIFE: 'listening',
\* or 'error' (EADDRINUSE), which the listener logs; without a listener the
\* 'error' event is an uncaught exception
BindResult ==
  /\ alive
  /\ bindState = "pending"
  /\ pc = "completed"
  /\ IF portBusy
       THEN /\ bindState' = "error"
            /\ IF errListener
                 THEN /\ logged' = logged \cup {"serverError"}
                      /\ UNCHANGED alive
                 ELSE /\ logged' = logged \cup {"uncaught"}
                      /\ alive' = OnUncaughtException(alive)
       ELSE /\ bindState' = "listening"
            /\ UNCHANGED <<logged, alive>>
  /\ UNCHANGED <<pc, stack, created, httpServer, listenCalls, portBusy,
                 errListener, keepAlive, reqVars, migVars>>

\* the response has been written out ('finish'); the dispatcher is free again
Finish ==
  /\ alive
  /\ phase = "done"
  /\ phase' = "idle"
  /\ req' = NoReq
  /\ pos' = 0
  /\ err' = NoErr
  /\ res' = NoRes
  /\ invoked' = <<>>
  /\ classified' = "none"
  /\ nextCalls' = 0
  /\ UNCHANGED <<hadError, srvVars, migVars>>

MigIdle ==
  /\ script = "none"
  /\ dbEnv = "ok"
  /\ mpc = "idle"
  /\ tables = {}
  /\ cols = {}
  /\ constraints = {}
  /\ users = {}
  /\ email = <<>>
  /\ stmtFailed = FALSE
  /\ exitCode = -1
  /\ runs = 0
  /\ before = <<>>
  /\ after1 = <<>>

ReqIdle ==
  /\ phase = "idle"
  /\ req = NoReq
  /\ pos = 0
  /\ err = NoErr
  /\ res = NoRes
  /\ invoked = <<>>
  /\ classified = "none"
  /\ nextCalls = 0
  /\ hadError = FALSE

Init ==
  /\ pc = "registerRoutes"
  /\ stack = InitStack
  /\ created = {"server"}
  /\ httpServer = "none"
  /\ listenCalls = [h \in Handles |-> 0]
  /\ portBusy \in BOOLEAN
  /\ bindState = "idle"
  /\ errListener = FALSE
  /\ keepAlive = FALSE
  /\ alive = TRUE
  /\ logged = {}
  /\ ReqIdle
  /\ MigIdle

Next ==
  \/ RegisterRoutes
  \/ SetupAssets
  \/ RegisterErrorHandler
  \/ FreePort
  \/ Listen
  \/ RegisterServerErrorHandler
  \/ StartKeepAlive
  \/ BindResult
  \/ KeepAliveTick
  \/ Receive
  \/ RootHandler
  \/ Health
  \/ ApiHealth
  \/ Repl
  \/ JsonMiddleware
  \/ UrlencodedMiddleware
  \/ StaticMiddleware
  \/ RequestLogger
  \/ Cors
  \/ ApiStatus
  \/ AppRoutes
  \/ Assets
  \/ ErrorHandler
  \/ FinalHandler
  \/ Finish

Spec == Init /\ [][Next]_vars

(***************************************************************************)
(* The migration scripts                                                   *)
(***************************************************************************)
MaxRuns == 2

Scripts == {"googleAuth", "siteSettings", "fullPreview", "vimeo", "filters"}
Usernames == {"alice", "bob"}

GoogleCols == {"google_id", "google_name", "google_email", "google_photo_url",
               "auth_provider"}

\* the application schema every migration starts from
BaseTables == {"users", "videos"}
BaseCols == {<<"users", "id">>, <<"users", "username">>, <<"users", "password">>,
             <<"videos", "id">>}
BaseConstraints == {<<"users", "username", "NOT NULL">>,
                    <<"users", "username", "UNIQUE">>}

Snapshot == <<tables, cols, constraints, users, email>>

\* can a statement fail for a reason outside the schema?
Faults ==
  CASE dbEnv = "ok"     -> {FALSE}
    [] dbEnv = "outage" -> {FALSE, TRUE}
    [] OTHER            -> {TRUE}

\* username || '@platehub.com'
DefaultEmail(u) == u \o "@platehub.com"

\* process.exit(code), or the process running out of work (code 0)
Exit(code) ==
  /\ exitCode' = code
  /\ mpc' = "exited"
  /\ runs' = runs + 1
  /\ after1' = IF runs = 0 THEN Snapshot ELSE after1
  /\ UNCHANGED <<script, dbEnv, tables, cols, constraints, users, email,
                 stmtFailed, before>>

\* the script is started again on the database the last run left
Rerun ==
  /\ mpc = "exited"
  /\ runs < MaxRuns
  /\ mpc' = "start"
  /\ stmtFailed' = FALSE
  /\ exitCode' = -1
  /\ UNCHANGED <<script, dbEnv, tables, cols, constraints, users, email,
                 runs, before, after1, srvVars, reqVars>>

\* if (!process.env.DATABASE_URL) throw ...
CheckUrl(s) ==
  /\ script = s
  /\ mpc = "start"
  /\ mpc' = IF dbEnv = "noUrl" THEN "rejected" ELSE "s1"
  /\ UNCHANGED <<script, dbEnv, tables, cols, constraints, users, email,
                 stmtFailed, exitCode, runs, before, after1, srvVars, reqVars>>

\* a statement raised: nothing of it is applied
Failed(to) ==
  /\ stmtFailed' = TRUE
  /\ mpc' = to
  /\ UNCHANGED <<tables, cols, constraints, users, email>>

MigFrame == UNCHANGED <<script, dbEnv, exitCode, runs, before, after1,
                        srvVars, reqVars>>

\* ---- db-migrate-google-auth.ts, first script: Google auth columns ----
GoogleAuthAlter ==
  /\ script = "googleAuth"
  /\ mpc = "start"
  /\ \E fault \in Faults :
       IF fault \/ "users" \notin tables \/ <<"users", "password">> \notin cols
       THEN Failed("caught")
       ELSE /\ cols' = cols \cup { <<"users", c>> : c \in GoogleCols }
            /\ constraints' =
                 (constraints
                    \cup (IF <<"users", "google_id">> \in cols THEN {}
                          ELSE {<<"users", "google_id", "UNIQUE">>}))
                   \ {<<"users", "password", "NOT NULL">>}
            /\ mpc' = "ok"
            /\ UNCHANGED <<tables, users, email, stmtFailed>>
  /\ MigFrame

GoogleAuthExit ==
  /\ script = "googleAuth"
  /\ mpc \in {"ok", "caught"}
  /\ Exit(IF mpc = "caught" THEN 1 ELSE 0)
  /\ UNCHANGED <<srvVars, reqVars>>

\* ---- db-migrate-google-auth.ts, second script: site_settings ----
SiteSettingsStart == CheckUrl("siteSettings")

SiteSettingsCreate ==
  /\ script = "siteSettings"
  /\ mpc = "s1"
  /\ \E fault \in Faults :
       IF fault
       THEN Failed("resolved")
       ELSE /\ tables' = tables \cup {"site_settings"}
            /\ mpc' = "resolved"
            /\ UNCHANGED <<cols, constraints, users, email, stmtFailed>>
  /\ MigFrame

\* main().catch(console.error): nothing calls process.exit
SiteSettingsExit ==
  /\ script = "siteSettings"
  /\ mpc \in {"resolved", "rejected"}
  /\ Exit(0)
  /\ UNCHANGED <<srvVars, reqVars>>

\* ---- full_preview_url ----
FullPreviewStart == CheckUrl("fullPreview")

FullPreviewAlter ==
  /\ script = "fullPreview"
  /\ mpc = "s1"
  /\ \E fault \in Faults :
       IF fault \/ "videos" \notin tables
       THEN Failed("resolved")
       ELSE /\ cols' = cols \cup {<<"videos", "full_preview_url">>}
            /\ mpc' = "resolved"
            /\ UNCHANGED <<tables, constraints, users, email, stmtFailed>>
  /\ MigFrame

FullPreviewExit ==
  /\ script = "fullPreview"
  /\ mpc \in {"resolved", "rejected"}
  /\ Exit(IF mpc = "rejected" THEN 1 ELSE 0)
  /\ UNCHANGED <<srvVars, reqVars>>

\* ---- vimeo_embed_url ----
VimeoStart == CheckUrl("vimeo")

\* a lookup that reports no row whatever the schema holds
ColumnRows_Empty(t, c) == IF <<t, c>> \in cols THEN 0 ELSE 0

\* SELECT column_name FROM information_schema.columns WHERE ...: row count
ColumnRows(t, c) == IF <<t, c>> \in cols THEN 1 ELSE 0

VimeoCheck ==
  /\ script = "vimeo"
  /\ mpc = "s1"
  /\ \E fault \in Faults :
       IF fault
       THEN Failed("rejected")
       ELSE /\ mpc' = IF ColumnRows("videos", "vimeo_embed_url") = 0
                        THEN "s2" ELSE "resolved"
            /\ UNCHANGED <<tables, cols, constraints, users, email, stmtFailed>>
  /\ MigFrame

\* ALTER TABLE videos ADD COLUMN vimeo_embed_url TEXT (no IF NOT EXISTS)
VimeoAlter ==
  /\ script = "vimeo"
  /\ mpc = "s2"
  /\ \E fault \in Faults :
       IF fault \/ "videos" \notin tables
                \/ <<"videos", "vimeo_embed_url">> \in cols
       THEN Failed("rejected")
       ELSE /\ cols' = cols \cup {<<"videos", "vimeo_embed_url">>}
            /\ mpc' = "resolved"
            /\ UNCHANGED <<tables, constraints, users, email, stmtFailed>>
  /\ MigFrame

VimeoExit ==
  /\ script = "vimeo"
  /\ mpc \in {"resolved", "rejected"}
  /\ Exit(IF mpc = "rejected" THEN 1 ELSE 0)
  /\ UNCHANGED <<srvVars, reqVars>>

\* ---- filters / users.email / favorites ----
FiltersCreateFilters ==
  /\ script = "filters"
  /\ mpc = "start"
  /\ \E fault \in Faults :
       IF fault
       THEN Failed("caught")
       ELSE /\ tables' = tables \cup {"filters"}
            /\ mpc' = "s2"
            /\ UNCHANGED <<cols, constraints, users, email, stmtFailed>>
  /\ MigFrame

\* the DO block: one statement, applied whole or not at all
FiltersEmail ==
  /\ script = "filters"
  /\ mpc = "s2"
  /\ \E fault \in Faults :
       IF fault \/ "users" \notin tables
       THEN Failed("caught")
       ELSE /\ IF <<"users", "email">> \in cols
                 THEN UNCHANGED <<cols, constraints, email>>
                 ELSE /\ cols' = cols \cup {<<"users", "email">>}
                      /\ email' = [u \in users |-> DefaultEmail(u)]
                      /\ constraints' = constraints
                            \cup {<<"users", "email", "UNIQUE">>,
                                  <<"users", "email", "NOT NULL">>}
            /\ mpc' = "s3"
            /\ UNCHANGED <<tables, users, stmtFailed>>
  /\ MigFrame

FiltersFavorites ==
  /\ script = "filters"
  /\ mpc = "s3"
  /\ \E fault \in Faults :
       IF fault \/ ("favorites" \notin tables /\ ~(BaseTables \subseteq tables))
       THEN Failed("caught")
       ELSE /\ tables' = tables \cup {"favorites"}
            /\ mpc' = "ok"
            /\ UNCHANGED <<cols, constraints, users, email, stmtFailed>>
  /\ MigFrame

FiltersExit ==
  /\ script = "filters"
  /\ mpc \in {"ok", "caught"}
  /\ Exit(IF mpc = "caught" THEN 1 ELSE 0)
  /\ UNCHANGED <<srvVars, reqVars>>

\* what each script adds, which the starting schema may or may not hold yet
TargetTables(s) ==
  CASE s = "siteSettings" -> {"site_settings"}
    [] s = "filters"      -> {"filters", "favorites"}
    [] OTHER              -> {}

TargetCols(s) ==
  CASE s = "googleAuth"  -> { <<"users", c>> : c \in GoogleCols }
    [] s = "fullPreview" -> {<<"videos", "full_preview_url">>}
    [] s = "vimeo"       -> {<<"videos", "vimeo_embed_url">>}
    [] s = "filters"     -> {<<"users", "email">>}
    [] OTHER             -> {}

TargetConstraints(cs) ==
  { c \in {<<"users", "google_id", "UNIQUE">>, <<"users", "email", "UNIQUE">>,
            <<"users", "email", "NOT NULL">>} : <<c[1], c[2]>> \in cs }

\* the rows of users.email a schema with these constraints can hold
EmailStates(us, cs, ks) ==
  IF <<"users", "email">> \notin cs THEN { [u \in us |-> "NULL"] }
  ELSE { f \in [us -> {"NULL", "x@mail.com"} \cup { DefaultEmail(u) : u \in us }] :
           /\ (<<"users", "email", "NOT NULL">> \in ks
                 => \A u \in us : f[u] # "NULL")
           /\ (<<"users", "email", "UNIQUE">> \in ks
                 => \A u, v \in us : (u # v /\ f[u] # "NULL") => f[u] # f[v]) }

SrvIdle ==
  /\ pc = "registerRoutes"
  /\ stack = InitStack
  /\ created = {"server"}
  /\ httpServer = "none"
  /\ listenCalls = [h \in Handles |-> 0]
  /\ portBusy = FALSE
  /\ bindState = "idle"
  /\ errListener = FALSE
  /\ keepAlive = FALSE
  /\ alive = TRUE
  /\ logged = {}

InitMig ==
  /\ SrvIdle
  /\ ReqIdle
  /\ script \in Scripts
  /\ dbEnv \in {"ok", "noUrl", "outage"}
  /\ mpc = "start"
  /\ \E ts \in SUBSET TargetTables(script) : tables = BaseTables \cup ts
  /\ \E cs \in SUBSET TargetCols(script) : cols = BaseCols \cup cs
  /\ \E ks \in SUBSET (TargetConstraints(cols)
                          \cup {<<"users", "password", "NOT NULL">>}) :
       constraints = BaseConstraints \cup ks
  /\ users \in SUBSET Usernames
  /\ email \in EmailStates(users, cols, constraints)
  /\ stmtFailed = FALSE
  /\ exitCode = -1
  /\ runs = 0
  /\ before = Snapshot
  /\ after1 = <<>>

NextMig ==
  \/ GoogleAuthAlter
  \/ GoogleAuthExit
  \/ SiteSettingsStart
  \/ SiteSettingsCreate
  \/ SiteSettingsExit
  \/ FullPreviewStart
  \/ FullPreviewAlter
  \/ FullPreviewExit
  \/ VimeoStart
  \/ VimeoCheck
  \/ VimeoAlter
  \/ VimeoExit
  \/ FiltersCreateFilters
  \/ FiltersEmail
  \/ FiltersFavorites
  \/ FiltersExit
  \/ Rerun

SpecMig == InitMig /\ [][NextMig]_vars

(***************************************************************************)
(* Properties                                                              *)
(***************************************************************************)
\* the signals of a request, as the interface lists them
SignalTokens == {GoogleHC, HealthCheck, Curl, Replit}

HasSignal(r) ==
  \/ \E tok \in SignalTokens :
       \E i \in 1..Len(r.ua) : \E j \in i..Len(r.ua) : SubSeq(r.ua, i, j) = tok
  \/ r.xhc = "true"
  \/ r.xrhc = "true"
  \/ r.health = <<"check">>

OkText(layer) == [status |-> 200, body |-> "OK", type |-> "text", by |-> layer]

HealthPaths == {"/health", "/api/health", "/__repl"}

HealthLayer(path) ==
  CASE path = "/health"     -> "health"
    [] path = "/api/health" -> "apiHealth"
    [] path = "/__repl"     -> "repl"

\* C1 as stated: every request to / that carries a signal, whatever its
\* method, is classified as a health check and answered 200 "OK" by the root
\* router.
C1_AnyMethod ==
  (phase = "done" /\ req.path = "/" /\ HasSignal(req))
    => (classified = "true" /\ res = OkText("root"))

\* C1 amended: every GET request to / that carries a signal is classified as
\* a health check and answered 200 "OK" by the root router.
C1_GetSignal ==
  (phase = "done" /\ req.method = "GET" /\ req.path = "/" /\ HasSignal(req))
    => (classified = "true" /\ res = OkText("root"))

C1_Witness ==
  /\ phase = "done"
  /\ req.method = "GET"
  /\ req.path = "/"
  /\ req.xrhc = "true"
  /\ req.xhc = ""
  /\ req.health = <<>>
  /\ ~Includes(req.ua, Curl)
  /\ Len(req.ua) > 0
  /\ res = OkText("root")

\* C2: a request to / without any signal is never classified as a health
\* check and never answered by the root router; when the root handler runs
\* for it (GET, HEAD) the classifier returns false and next() is called
\* exactly once, handing the request to the following layer.
C2_NoSignalForwarded ==
  (phase # "idle" /\ req.path = "/" /\ ~HasSignal(req))
    => /\ classified # "true"
       /\ res.by # "root"
       /\ nextCalls <= 1
       /\ ("root" \in Range(invoked)
              => classified = "false" /\ nextCalls = 1 /\ pos > 1)
       /\ ((phase = "done" /\ req.method \in {"GET", "HEAD"})
              => (Len(invoked) >= 2 /\ invoked[1] = "root"))

C2_Witness ==
  /\ phase = "done"
  /\ req.method = "GET"
  /\ req.path = "/"
  /\ Len(req.ua) > 20
  /\ req.xhc = "TRUE"
  /\ req.health = <<"check", "check">>
  /\ classified = "false"
  /\ nextCalls = 1
  /\ res.by = "assets"

\* C3: once the listener is up, GET /health, GET /api/health and GET /__repl
\* are answered 200 "OK" by their own handler, with no classification and no
\* other handler run, whatever the headers and query and whatever happened
\* before; the listener stays up.
C3_FixedHealthEndpoints ==
  /\ (phase = "done" /\ req.method = "GET" /\ req.path \in HealthPaths)
       => /\ res = OkText(HealthLayer(req.path))
          /\ classified = "none"
          /\ invoked = <<HealthLayer(req.path)>>
  /\ (phase # "idle" => (alive /\ bindState = "listening"))

C3_Witness ==
  /\ phase = "done"
  /\ req.method = "GET"
  /\ req.path = "/api/health"
  /\ ~HasSignal(req)
  /\ hadError
  /\ "uncaught" \in logged
  /\ res = OkText("apiHealth")

\* the status the interface promises for an error
PromisedStatus(e) ==
  CASE e.status # 0                       -> e.status
    [] e.status = 0 /\ e.statusCode # 0   -> e.statusCode
    [] OTHER                              -> 500

PromisedMessage(e) ==
  CASE e.message # "" -> e.message
    [] OTHER          -> "Internal Server Error"

\* C4: a request whose route handler threw ends with a JSON response carrying
\* the error's message (or "Internal Server Error") and the status taken from
\* status, else statusCode, else 500; the process stays up and listening, and
\* a later health request is answered 200.
C4_ErrorResponse ==
  /\ (phase = "done" /\ err # NoErr)
       => res = [status |-> PromisedStatus(err), body |-> PromisedMessage(err),
                 type |-> "json", by |-> "errorHandler"]
  /\ (hadError => (alive /\ bindState = "listening"))
  /\ (hadError /\ phase = "done" /\ err = NoErr /\ req.method = "GET"
         /\ req.path \in HealthPaths)
       => res.status = 200

C4_Witness ==
  /\ hadError
  /\ phase = "done"
  /\ err = NoErr
  /\ req.path = "/api/videos"
  /\ res.status = 200
  /\ res.by = "appRoutes"

\* C5: after a throw in the keep-alive callback the exception is logged, the
\* process is still running, and GET /health is still answered 200 "OK".
C5_SurvivesUncaught ==
  /\ (keepAlive => alive)
  /\ ("uncaught" \in logged)
       => /\ alive
          /\ (phase = "done" /\ req.method = "GET" /\ req.path = "/health")
               => res = OkText("health")

C5_Witness ==
  /\ "uncaught" \in logged
  /\ alive
  /\ phase = "done"
  /\ req.method = "GET"
  /\ req.path = "/health"
  /\ res = OkText("health")

StartupEnded == pc \in {"completed", "failed"}

\* C6 as stated: when the startup sequence has ended, whichever stages
\* failed, listen has been invoked exactly once, on exactly one handle.
C6_ListenExactlyOnce ==
  StartupEnded
    => /\ Cardinality({ h \in Handles : listenCalls[h] = 1 }) = 1
       /\ \A h \in Handles : listenCalls[h] <= 1

\* C7 as stated: when a startup stage from route registration onward has
\* failed, the failure is logged, the process is running, and a listener is
\* there to serve health-check requests.
C7_FailedStageStillServes ==
  (pc = "failed" \/ bindState = "error")
    => /\ alive
       /\ logged \cap {"initError", "serverError"} # {}
       /\ bindState \in {"pending", "listening"}

\* C8 as stated: a run exits with code 0 exactly when the database URL was
\* set and no statement failed.
C8_ExitCodeReflectsOutcome ==
  (mpc = "exited")
    => ((exitCode = 0) <=> (dbEnv # "noUrl" /\ ~stmtFailed))

\* C9: with the database reachable, every run after the first exits without
\* a failed statement, with code 0, and leaves the schema and the data as the
\* first run left them.
C9_Idempotent ==
  (dbEnv = "ok" /\ runs >= 2 /\ mpc = "exited")
    => /\ Snapshot = after1
       /\ ~stmtFailed
       /\ exitCode = 0

C9_Witness ==
  /\ dbEnv = "ok"
  /\ script = "vimeo"
  /\ runs = 2
  /\ mpc = "exited"
  /\ <<"videos", "vimeo_embed_url">> \in cols
  /\ before # after1
  /\ exitCode = 0

\* C10: the root router and the three fixed health endpoints are the first
\* four layers of the stack, every other layer comes after them, and a
\* request the root router classifies as a health check is answered by it
\* with no other handler run.
C10_HealthFirst ==
  /\ Len(stack) >= 4
  /\ SubSeq(stack, 1, 4) = <<"root", "health", "apiHealth", "repl">>
  /\ \A i \in 5..Len(stack) :
       stack[i] \notin {"root", "health", "apiHealth", "repl"}
  /\ (classified = "true")
       => (phase = "done" /\ invoked = <<"root">> /\ res.by = "root")

C10_Witness ==
  /\ classified = "true"
  /\ phase = "done"
  /\ invoked = <<"root">>
  /\ Includes(req.ua, Curl)
  /\ stack[Len(stack)] = "errorHandler"
  /\ "assets" \in Range(stack)

====
